---- MODULE Spec2Model ----
(***************************************************************************)
(* Weather outerwear recommendation Lambda                                 *)
(* (src/lambdas/lambda2/lambda_function.py).                               *)
(*                                                                         *)
(* The handler is modelled as a state machine whose steps are the code     *)
(* between two network attempts: the outcome of every urlopen attempt      *)
(* (an exception or a parsed JSON body) is chosen by the environment.      *)
(* Text is a sequence of one-character strings, so that str.strip(),       *)
(* len() and f-string concatenation are computed rather than assumed.      *)
(* JSON values are tagged records; a dict is a function from keys to JSON  *)
(* values, so an absent key and a null value stay distinct.                *)
(* Numbers are integers (whole degrees, whole percent).  The timestamp of  *)
(* a log entry is read from the clock and is left out of the entry.        *)
(***************************************************************************)
EXTENDS Integers, Sequences, FiniteSets, TLC

VARIABLES
    event,      \* event[i]: the event invocation i was called with
    pc,         \* pc[i]: "idle", "start", "geocode", "weather", "done", "raised"
    city,       \* city[i]: the handler's local city (after strip)
    url,        \* url[i]: the URL fetch_with_retry is working on
    attempt,    \* attempt[i]: loop index of fetch_with_retry
    data,       \* data[i]: what the last fetch_with_retry call returned
    location,   \* location[i]: result of get_coordinates
    weather,    \* weather[i]: result of get_weather
    resp,       \* resp[i]: the response the handler returned
    exc,        \* exc[i]: the exception caught by, or escaping, the handler
    trace,      \* trace[i]: every urlopen attempt made so far (history)
    sleeps,     \* sleeps[i]: every time.sleep made so far (history)
    steps,      \* steps[i]: the stages of the try block entered so far (history)
    logs,       \* entries printed to stdout
    recCalls    \* direct calls of get_outerwear_recommendations (history)

vars == <<event, pc, city, url, attempt, data, location, weather, resp, exc,
          trace, sleeps, steps, logs, recCalls>>

---------------------------------------------------------------------------
(* Program constants *)

GEOCODING_URL == "https://geocoding-api.open-meteo.com/v1/search"
WEATHER_URL == "https://api.open-meteo.com/v1/forecast"
MAX_RETRIES == 3
MaxCityLen == 100

(* Bounds of the model *)

NumInvocations == 2
MaxPad == 1
MaxCalls == 2

Invs == 1..NumInvocations

---------------------------------------------------------------------------
(* JSON / Python values *)

None == [t |-> "null"]
Str(s) == [t |-> "str", v |-> s]
Num(n) == [t |-> "num", v |-> n]
List(s) == [t |-> "list", v |-> s]
Dict(f) == [t |-> "dict", v |-> f]
EmptyDict == Dict(<<>>)

\* dict.get(key, default)
Get(d, key, default) == IF key \in DOMAIN d.v THEN d.v[key] ELSE default

\* Python truth value of the values that occur here
Truthy(x) ==
    CASE x.t = "null" -> FALSE
      [] x.t = "num" -> x.v # 0
      [] x.t = "dict" -> DOMAIN x.v # {}
      [] OTHER -> Len(x.v) # 0

\* str(x) as placed in an f-string, for None and for text
Format(x) ==
    CASE x.t = "null" -> <<"N", "o", "n", "e">>
      [] x.t = "str" -> x.v

\* outcome of a function call: a returned value or a raised exception
Ret(x) == [raised |-> FALSE, val |-> x]
Raise(e) == [raised |-> TRUE, exc |-> e]

---------------------------------------------------------------------------
(* Text *)

Whitespace == {" ", "\t"}

Rep(c, n) == [k \in 1..n |-> c]

SetMin(S) == CHOOSE x \in S : \A y \in S : x <= y
SetMax(S) == CHOOSE x \in S : \A y \in S : x >= y

\* no leading or trailing whitespace is removed (faulty variant of strip)
stripNoop(s) == s

\* str.strip(): drops leading and trailing whitespace, keeps inner whitespace
strip(s) ==
    LET keep == {k \in 1..Len(s) : s[k] \notin Whitespace}
    IN  IF keep = {} THEN <<>> ELSE SubSeq(s, SetMin(keep), SetMax(keep))

\* needle in hay (Python's substring test)
Contains(hay, needle) ==
    \E k \in 0..(Len(hay) - Len(needle)) :
        SubSeq(hay, k + 1, k + Len(needle)) = needle

MsgMissing == <<"M", "i", "s", "s", "i", "n", "g", " ", "r", "e", "q", "u", "i", "r", "e", "d", " ", "p", "a", "r", "a", "m", "e", "t", "e", "r", ":", " ", "c", "i", "t", "y">>
MsgTooLong == <<"C", "i", "t", "y", " ", "n", "a", "m", "e", " ", "t", "o", "o", " ", "l", "o", "n", "g", " ", "(", "m", "a", "x", " ", "1", "0", "0", " ", "c", "h", "a", "r", "a", "c", "t", "e", "r", "s", ")">>
MsgNotFoundPrefix == <<"C", "i", "t", "y", " ", "n", "o", "t", " ", "f", "o", "u", "n", "d", ":", " ">>
MsgUnavailable == <<"W", "e", "a", "t", "h", "e", "r", " ", "d", "a", "t", "a", " ", "u", "n", "a", "v", "a", "i", "l", "a", "b", "l", "e">>
MsgInternal == <<"I", "n", "t", "e", "r", "n", "a", "l", " ", "s", "e", "r", "v", "e", "r", " ", "e", "r", "r", "o", "r">>

---------------------------------------------------------------------------
(* Inputs *)

\* whitespace runs of at most MaxPad characters
Pads == UNION {[1..n -> Whitespace] : n \in 0..MaxPad}

\* city names without outer whitespace: empty, one character, at and above
\* the length limit, and one with inner whitespace
Cores ==
    {Rep("A", n) : n \in {0, 1, MaxCityLen, MaxCityLen + 1}}
        \cup {<<"A", " ", "B">>}

CityInputs == {l \o c \o r : l \in Pads, c \in Cores, r \in Pads}

\* API Gateway events: queryStringParameters absent, null, empty, or a map
\* whose city entry is a string or null
Events ==
    {EmptyDict,
     Dict([queryStringParameters |-> None]),
     Dict([queryStringParameters |-> EmptyDict]),
     Dict([queryStringParameters |-> Dict([city |-> None])])}
        \cup {Dict([queryStringParameters |-> Dict([city |-> Str(c)])]) :
                c \in CityInputs}

\* exceptions of one urlopen / json.loads attempt
Errors == {"URLError", "JSONDecodeError"}


TxtToronto == <<"T", "o", "r", "o", "n", "t", "o">>
TxtCanada == <<"C", "a", "n", "a", "d", "a">>

Toronto ==
    Dict([name |-> Str(TxtToronto), country |-> Str(TxtCanada),
          latitude |-> Num(44), longitude |-> Num(-79)])

\* entries of the geocoding "results" array: a complete one and one in
\* which the upstream omitted every field
GeoResults == {Toronto, EmptyDict}

\* parsed geocoding bodies: no results key, an empty array, one result,
\* and bodies of an unexpected shape (results null, a bare array)
GeoBodies ==
    {EmptyDict, Dict([results |-> List(<<>>)]), Dict([results |-> None]),
     List(<<>>)}
        \cup {Dict([results |-> List(<<r>>)]) : r \in GeoResults}

HandlerTemps == {-2, 0, 20}
HandlerPrecips == {10, 60}

\* the "current" section: each field absent, null or a number
CurrentDicts ==
    {[k \in ks |-> f[k]] :
        ks \in SUBSET {"temperature_2m", "precipitation_probability"},
        f \in [temperature_2m : {None} \cup {Num(n) : n \in HandlerTemps},
               precipitation_probability :
                   {None} \cup {Num(n) : n \in HandlerPrecips}]}

\* parsed weather bodies: no current section, current null, or a section
WeatherBodies ==
    {EmptyDict, Dict([current |-> None])}
        \cup {Dict([current |-> Dict(c)]) : c \in CurrentDicts}

---------------------------------------------------------------------------
(* Helpers of the handler *)

\* request identifier of invocation i (context.aws_request_id)
RequestId(i) == i

\* the CORS header is left out (faulty variant of Headers)
HeadersNoCors == ("Content-Type" :> "application/json")

\* the headers of every response
Headers ==
    ("Content-Type" :> "application/json")
        @@ ("Access-Control-Allow-Origin" :> "*")

\* response(status_code, body); body is the JSON document that json.dumps
\* serialises and that a client reads back with json.loads
response(status_code, body) ==
    [statusCode |-> status_code, headers |-> Headers, body |-> body]

\* one log() call: the entry printed to stdout
LogEntry(level, message, metadata) ==
    [level |-> level, message |-> message, function |-> "PythonFunction",
     metadata |-> metadata]

\* the last retry is dropped: the second failure is already final
\* (faulty variant of ShouldRetry)
ShouldRetryEarly(att) == att < MAX_RETRIES - 2

\* fetch_with_retry: a failed attempt is retried while attempts remain
ShouldRetry(att) == att < MAX_RETRIES - 1

\* the final error is wrapped in a new exception
\* (faulty variant of Reraise)
ReraiseWrapped(e) == "RuntimeError"

\* raise e, after the last attempt: the error caught in that attempt itself
Reraise(e) == e

\* a linear backoff (faulty variant of Backoff)
BackoffLinear(att) == 2 * att

\* time.sleep(2 ** attempt)
Backoff(att) == 2 ^ att

\* get_coordinates builds the geocoding URL
GeocodingRequest(c) ==
    [base |-> GEOCODING_URL, params |-> [name |-> c, count |-> 1]]

\* get_weather builds the forecast URL
WeatherRequest(latitude, longitude) ==
    [base |-> WEATHER_URL,
     params |-> [latitude |-> latitude, longitude |-> longitude,
                 current |-> "temperature_2m,precipitation_probability"]]

\* len(x) of a JSON value
PyLen(x) == IF x.t = "dict" THEN Cardinality(DOMAIN x.v) ELSE Len(x.v)

\* "results" not in data
ResultsMissing(body) ==
    IF body.t = "dict" THEN "results" \notin DOMAIN body.v
    ELSE \A k \in 1..Len(body.v) :
            body.v[k] # Str(<<"r", "e", "s", "u", "l", "t", "s">>)

\* the emptiness test of the results array is missing, so indexing an empty
\* array raises (faulty variant of get_coordinates)
get_coordinates_unchecked(body) ==
    IF body.t \notin {"dict", "list"} THEN Raise("TypeError")
    ELSE IF ResultsMissing(body) THEN Ret(None)
    ELSE IF body.t # "dict" THEN Raise("TypeError")
    ELSE LET results == body.v["results"] IN
         IF results.t # "list" THEN Raise("TypeError")
         ELSE IF Len(results.v) = 0 THEN Raise("IndexError")
         ELSE LET result == results.v[1] IN
              IF result.t # "dict" THEN Raise("AttributeError")
              ELSE Ret(Dict([name |-> Get(result, "name", None),
                             country |-> Get(result, "country", None),
                             latitude |-> Get(result, "latitude", None),
                             longitude |-> Get(result, "longitude", None)]))

\* get_coordinates after the fetch returned data (body)
get_coordinates(body) ==
    IF body.t \notin {"dict", "list"} THEN Raise("TypeError")
    ELSE IF ResultsMissing(body) THEN Ret(None)
    ELSE IF body.t # "dict" THEN Raise("TypeError")
    ELSE LET results == body.v["results"] IN
         IF results.t \notin {"dict", "list", "str"} THEN Raise("TypeError")
         ELSE IF PyLen(results) = 0 THEN Ret(None)
         ELSE IF results.t # "list" THEN Raise("KeyError")
         ELSE LET result == results.v[1] IN
              IF result.t # "dict" THEN Raise("AttributeError")
              ELSE Ret(Dict([name |-> Get(result, "name", None),
                             country |-> Get(result, "country", None),
                             latitude |-> Get(result, "latitude", None),
                             longitude |-> Get(result, "longitude", None)]))

\* get_weather after the fetch returned data (body)
get_weather(body) ==
    IF body.t # "dict" THEN Raise("AttributeError")
    ELSE LET current == Get(body, "current", EmptyDict) IN
         IF current.t # "dict" THEN Raise("AttributeError")
         ELSE Ret(Dict([temperature |-> Get(current, "temperature_2m", None),
                        precipitationProbability |->
                            Get(current, "precipitation_probability", None)]))

\* the tiers include their upper boundary (faulty variant of TemperatureItems)
TemperatureItemsInclusive(temperature) ==
    IF temperature.v <= 0 THEN <<"winter coat">>
    ELSE IF temperature.v <= 10 THEN <<"light jacket">>
    ELSE IF temperature.v <= 16 THEN <<"hoodie">>
    ELSE <<>>

\* the temperature item of get_outerwear_recommendations
TemperatureItems(temperature) ==
    IF temperature.v < 0 THEN <<"winter coat">>
    ELSE IF temperature.v < 10 THEN <<"light jacket">>
    ELSE IF temperature.v < 16 THEN <<"hoodie">>
    ELSE <<>>

\* the rain threshold is inclusive (faulty variant of RainItems)
RainItemsInclusive(precipitation_probability) ==
    IF precipitation_probability # None /\ precipitation_probability.v >= 40
    THEN <<"rain jacket">>
    ELSE <<>>

\* the rain item of get_outerwear_recommendations
RainItems(precipitation_probability) ==
    IF precipitation_probability # None /\ precipitation_probability.v > 40
    THEN <<"rain jacket">>
    ELSE <<>>

\* the rain rule is applied before the temperature rule
\* (faulty variant of get_outerwear_recommendations)
rain_first_recommendations(temperature, precipitation_probability) ==
    RainItems(precipitation_probability) \o TemperatureItems(temperature)

\* get_outerwear_recommendations(temperature, precipitation_probability)
get_outerwear_recommendations(temperature, precipitation_probability) ==
    TemperatureItems(temperature) \o RainItems(precipitation_probability)

\* country and name are exchanged (faulty variant of DisplayLocation)
DisplayLocationSwapped(loc) ==
    Format(loc.v["country"]) \o <<",", " ">> \o Format(loc.v["name"])

\* f"{location['name']}, {location['country']}"
DisplayLocation(loc) ==
    Format(loc.v["name"]) \o <<",", " ">> \o Format(loc.v["country"])

---------------------------------------------------------------------------
(* State *)

\* params = event.get("queryStringParameters") or {}
Params(ev) ==
    LET qsp == Get(ev, "queryStringParameters", None)
    IN  IF Truthy(qsp) THEN qsp ELSE EmptyDict

\* params.get("city", "")
RawCity(ev) == Get(Params(ev), "city", Str(<<>>))

Idle(S) ==
    /\ pc = [i \in Invs |-> IF i \in S THEN "start" ELSE "idle"]
    /\ city = [i \in Invs |-> None]
    /\ url = [i \in Invs |-> None]
    /\ attempt = [i \in Invs |-> 0]
    /\ data = [i \in Invs |-> None]
    /\ location = [i \in Invs |-> None]
    /\ weather = [i \in Invs |-> None]
    /\ resp = [i \in Invs |-> None]
    /\ exc = [i \in Invs |-> "none"]
    /\ trace = [i \in Invs |-> <<>>]
    /\ sleeps = [i \in Invs |-> <<>>]
    /\ steps = [i \in Invs |-> <<>>]
    /\ logs = <<>>
    /\ recCalls = <<>>

\* one invocation of lambda_handler, with any event; the other invocations
\* are never started
Init ==
    /\ \E e \in Events : event = [i \in Invs |-> IF i = 1 THEN e ELSE EmptyDict]
    /\ Idle({1})

\* one counter for all invocations, as a module-level variable would be
\* (faulty variant of LocalAttempt)
SharedAttempt(i, v) == [j \in Invs |-> v]

\* the loop variable of fetch_with_retry is local to the call of invocation i
LocalAttempt(i, v) == [attempt EXCEPT ![i] = v]

\* the try block of the handler goes through the given stages
Entering(i, stages) == steps' = [steps EXCEPT ![i] = @ \o stages]

\* return response(...) from the handler
Return(i, r) ==
    /\ pc' = [pc EXCEPT ![i] = "done"]
    /\ resp' = [resp EXCEPT ![i] = r]

\* the except branch of the handler: log the failure, answer 500
Except(i, e, printed) ==
    /\ exc' = [exc EXCEPT ![i] = e]
    /\ logs' = printed \o
         <<LogEntry("ERROR", "Request failed",
                    [requestId |-> RequestId(i), error |-> e,
                     city |-> Get(Params(event[i]), "city",
                                  Str(<<"u", "n", "k", "n", "o", "w", "n">>))])>>
    /\ Return(i, response(500, [success |-> FALSE, error |-> MsgInternal]))

\* if not city
CityMissing(c) == ~Truthy(Str(c))

\* the length check also rejects a city of exactly the limit
\* (faulty variant of CityTooLong)
CityTooLongOffByOne(c) == Len(c) >= MaxCityLen

\* the length check is missing (faulty variant of CityTooLong)
CityTooLongNever(c) == FALSE

\* if len(city) > 100
CityTooLong(c) == Len(c) > MaxCityLen

\* the availability check tests the truth value of the temperature, so a
\* temperature of 0 counts as absent (faulty variant of TemperatureAbsent)
TemperatureFalsy(w) == ~Truthy(w.v["temperature"])

\* if weather["temperature"] is None
TemperatureAbsent(w) == w.v["temperature"] = None

---------------------------------------------------------------------------
(* Steps of lambda_handler *)

\* entry of the handler up to the first network attempt: read the city,
\* log the request, validate, and enter get_coordinates
Receive(i) ==
    /\ pc[i] = "start"
    /\ IF RawCity(event[i]).t # "str"
       THEN \* .strip() fails before the try block is entered
            /\ pc' = [pc EXCEPT ![i] = "raised"]
            /\ exc' = [exc EXCEPT ![i] = "AttributeError"]
            /\ UNCHANGED <<city, url, attempt, resp, logs, steps>>
       ELSE LET c == strip(RawCity(event[i]).v)
                printed == Append(logs,
                    LogEntry("INFO", "Request received",
                             [requestId |-> RequestId(i), city |-> c]))
            IN  /\ city' = [city EXCEPT ![i] = c]
                /\ logs' = printed
                /\ UNCHANGED exc
                /\ IF CityMissing(c)
                   THEN /\ Return(i, response(400,
                              [success |-> FALSE, error |-> MsgMissing]))
                        /\ Entering(i, <<"validate">>)
                        /\ UNCHANGED <<url, attempt>>
                   ELSE IF CityTooLong(c)
                   THEN /\ Return(i, response(400,
                              [success |-> FALSE, error |-> MsgTooLong]))
                        /\ Entering(i, <<"validate">>)
                        /\ UNCHANGED <<url, attempt>>
                   ELSE /\ pc' = [pc EXCEPT ![i] = "geocode"]
                        /\ url' = [url EXCEPT ![i] = GeocodingRequest(c)]
                        /\ attempt' = LocalAttempt(i, 0)
                        /\ Entering(i, <<"validate", "geocode">>)
                        /\ UNCHANGED resp
    /\ UNCHANGED <<event, data, location, weather, trace, sleeps, recCalls>>

\* one attempt of fetch_with_retry: urlopen raised (outcome is the
\* exception) or json.loads produced body (outcome is "ok")
Attempted(i, outcome, body) ==
    trace' = [trace EXCEPT ![i] =
                Append(@, [url |-> url[i].base, attempt |-> attempt[i],
                           outcome |-> outcome, body |-> body])]

\* an attempt of fetch_with_retry fails with exception e: sleep and go
\* round again, or raise e, which nothing catches before the handler
FetchFail(i, e) ==
    /\ pc[i] \in {"geocode", "weather"}
    /\ Attempted(i, e, None)
    /\ IF ShouldRetry(attempt[i])
       THEN /\ sleeps' = [sleeps EXCEPT ![i] = Append(@, Backoff(attempt[i]))]
            /\ attempt' = LocalAttempt(i, attempt[i] + 1)
            /\ UNCHANGED <<pc, resp, exc, logs>>
       ELSE /\ Except(i, Reraise(e), logs)
            /\ UNCHANGED <<sleeps, attempt>>
    /\ UNCHANGED <<event, city, url, data, location, weather, steps, recCalls>>

\* the geocoding attempt succeeds with parsed body: the rest of
\* get_coordinates, the not-found check, and entry into get_weather
GeoFetchOk(i, body) ==
    /\ pc[i] = "geocode"
    /\ Attempted(i, "ok", body)
    /\ data' = [data EXCEPT ![i] = body]
    /\ LET r == get_coordinates(data'[i]) IN
       IF r.raised
       THEN /\ Except(i, r.exc, logs)
            /\ UNCHANGED <<location, url, attempt, steps>>
       ELSE /\ location' = [location EXCEPT ![i] = r.val]
            /\ IF ~Truthy(r.val)
               THEN /\ Return(i, response(404,
                          [success |-> FALSE,
                           error |-> MsgNotFoundPrefix \o city[i]]))
                    /\ UNCHANGED <<url, attempt, exc, logs, steps>>
               ELSE /\ pc' = [pc EXCEPT ![i] = "weather"]
                    /\ url' = [url EXCEPT ![i] =
                         WeatherRequest(r.val.v["latitude"],
                                        r.val.v["longitude"])]
                    /\ attempt' = LocalAttempt(i, 0)
                    /\ Entering(i, <<"weather">>)
                    /\ UNCHANGED <<resp, exc, logs>>
    /\ UNCHANGED <<event, city, weather, sleeps, recCalls>>

\* the weather attempt succeeds with parsed body: the rest of
\* get_weather, the availability check, the recommendation and the answer
WeatherFetchOk(i, body) ==
    /\ pc[i] = "weather"
    /\ Attempted(i, "ok", body)
    /\ data' = [data EXCEPT ![i] = body]
    /\ LET r == get_weather(data'[i]) IN
       IF r.raised
       THEN /\ Except(i, r.exc, logs)
            /\ UNCHANGED <<weather, steps>>
       ELSE /\ weather' = [weather EXCEPT ![i] = r.val]
            /\ IF TemperatureAbsent(r.val)
               THEN /\ Return(i, response(503,
                          [success |-> FALSE, error |-> MsgUnavailable]))
                    /\ Entering(i, <<"availability">>)
                    /\ UNCHANGED <<exc, logs>>
               ELSE LET recommendations ==
                            get_outerwear_recommendations(
                                r.val.v["temperature"],
                                r.val.v["precipitationProbability"])
                    IN  /\ logs' = logs \o
                             <<LogEntry("INFO", "Weather API success",
                                   [requestId |-> RequestId(i),
                                    location |-> DisplayLocation(location[i]),
                                    temperature |-> r.val.v["temperature"]]),
                               LogEntry("INFO", "Request completed",
                                   [requestId |-> RequestId(i),
                                    city |-> city[i],
                                    recommendations |-> recommendations])>>
                        /\ Return(i, response(200,
                              [success |-> TRUE,
                               data |->
                                 [location |-> DisplayLocation(location[i]),
                                  temperature |-> r.val.v["temperature"],
                                  precipitationProbability |->
                                      r.val.v["precipitationProbability"],
                                  outerwearRecommended |-> recommendations]]))
                        /\ Entering(i, <<"availability", "recommend">>)
                        /\ UNCHANGED exc
    /\ UNCHANGED <<event, city, url, attempt, location, sleeps, recCalls>>

Next ==
    \/ \E i \in Invs : Receive(i)
    \/ \E i \in Invs, e \in Errors : FetchFail(i, e)
    \/ \E i \in Invs, body \in GeoBodies : GeoFetchOk(i, body)
    \/ \E i \in Invs, body \in WeatherBodies : WeatherFetchOk(i, body)

Spec == Init /\ [][Next]_vars

---------------------------------------------------------------------------
(* Concurrent invocations *)

\* events of the concurrent invocations: a null city, a city
PairEvents ==
    {Dict([queryStringParameters |-> Dict([city |-> None])]),
     Dict([queryStringParameters |-> Dict([city |-> Str(<<"A">>)])])}

\* upstream answers of the concurrent invocations
PairErrors == {"URLError"}
PairGeoBodies == {Dict([results |-> List(<<Toronto>>)])}
PairWeatherBodies ==
    {Dict([current |-> Dict([temperature_2m |-> Num(20),
                             precipitation_probability |-> Num(60)])])}

\* every invocation is started, each with its own event; the Lambda
\* runtime interleaves their steps in any order
InitPair ==
    /\ event \in [Invs -> PairEvents]
    /\ Idle(Invs)

NextPair ==
    \/ \E i \in Invs : Receive(i)
    \/ \E i \in Invs, e \in PairErrors : FetchFail(i, e)
    \/ \E i \in Invs, body \in PairGeoBodies : GeoFetchOk(i, body)
    \/ \E i \in Invs, body \in PairWeatherBodies : WeatherFetchOk(i, body)

SpecPair == InitPair /\ [][NextPair]_vars

---------------------------------------------------------------------------
(* Direct calls of the recommendation engine *)

\* temperatures on both sides of every tier boundary, and those of the
\* unit tests
RecTemps ==
    {Num(b + d) : b \in {0, 10, 16}, d \in -1..1}
        \cup {Num(n) : n \in {-5, 5, 12, 20}}

\* precipitation probabilities: absent, around the threshold, and those of
\* the unit tests
RecPrecips ==
    {None} \cup {Num(40 + d) : d \in -1..1} \cup {Num(n) : n \in {10, 20, 60}}

\* no invocation of the handler is started
InitRec ==
    /\ event = [i \in Invs |-> EmptyDict]
    /\ Idle({})

\* the list outlives the call, as a mutable default argument or a
\* module-level list would: a call appends to what the previous call
\* returned (faulty variant of NewList)
KeptList(calls) == IF calls = <<>> THEN <<>> ELSE calls[Len(calls)].result

\* recommendations = []: every call starts from a new empty list, whatever
\* the calls made before
NewList(calls) == <<>>

\* recommendations = get_outerwear_recommendations(t, p)
CallRecommend(t, p) ==
    /\ Len(recCalls) < MaxCalls
    /\ recCalls' = Append(recCalls,
          [temperature |-> t, precipitation_probability |-> p,
           result |-> NewList(recCalls) \o get_outerwear_recommendations(t, p)])
    /\ UNCHANGED <<event, pc, city, url, attempt, data, location, weather,
                   resp, exc, trace, sleeps, steps, logs>>

NextRec == \E t \in RecTemps, p \in RecPrecips : CallRecommend(t, p)

SpecRec == InitRec /\ [][NextRec]_vars

---------------------------------------------------------------------------
(* Vocabulary of the properties *)

TxtMissingPrefix == <<"M", "i", "s", "s", "i", "n", "g", " ", "r", "e", "q", "u", "i", "r", "e", "d", " ", "p", "a", "r", "a", "m", "e", "t", "e", "r">>
TxtTooLong == <<"t", "o", "o", " ", "l", "o", "n", "g">>
TxtNotFound == <<"C", "i", "t", "y", " ", "n", "o", "t", " ", "f", "o", "u", "n", "d">>
TxtTorontoCanada == <<"T", "o", "r", "o", "n", "t", "o", ",", " ", "C", "a", "n", "a", "d", "a">>

\* invocation i has run its entry code
Entered(i) == pc[i] \notin {"idle", "start"}

\* invocation i returned a response
Returned(i) == pc[i] = "done"

\* invocation i returned status code s
Answered(i, s) == Returned(i) /\ resp[i].statusCode = s

\* invocation i returned an error response with status s and message m
Failed(i, s, m) ==
    /\ Answered(i, s)
    /\ resp[i].body = [success |-> FALSE, error |-> m]

\* the city entry of the event is a string (submitted or defaulted)
CityIsText(i) == RawCity(event[i]).t = "str"

\* the city text as submitted
Submitted(i) == RawCity(event[i]).v

AllWhitespace(s) == \A k \in 1..Len(s) : s[k] \in Whitespace

\* c is s without its leading and trailing whitespace
IsTrimOf(c, s) ==
    /\ c = <<>> \/ (c[1] \notin Whitespace /\ c[Len(c)] \notin Whitespace)
    /\ \E a \in 0..Len(s) :
          /\ a + Len(c) <= Len(s)
          /\ SubSeq(s, a + 1, a + Len(c)) = c
          /\ AllWhitespace(SubSeq(s, 1, a))
          /\ AllWhitespace(SubSeq(s, a + Len(c) + 1, Len(s)))

\* the attempts of invocation i on URL u, in order
CallEntries(i, u) == SelectSeq(trace[i], LAMBDA e : e.url = u)

\* the latest attempt of invocation i
LastAttempt(i) == trace[i][Len(trace[i])]

\* the latest attempt of invocation i was on URL u and succeeded
LastOk(i, u) ==
    /\ Len(trace[i]) > 0
    /\ LastAttempt(i).url = u
    /\ LastAttempt(i).outcome = "ok"

---------------------------------------------------------------------------
(* C1 *)

\* C1: every invocation ends in a response with status 200, 400, 404, 503
\* or 500, no exception escapes the handler, and every exception raised
\* while handling is answered with 500.
C1_AlwaysAResponse ==
    \A i \in Invs :
        /\ pc[i] # "raised"
        /\ Returned(i) => resp[i].statusCode \in {200, 400, 404, 503, 500}
        /\ exc[i] # "none" => Answered(i, 500)

---------------------------------------------------------------------------
(* C2 *)

\* C2: a fetch_with_retry call makes at most 3 attempts, numbered in
\* order; no attempt follows a successful one; the call returns the body of
\* the successful attempt; and it raises exactly when 3 attempts have
\* failed, never after 1 or 2 failures.
C2_RetryBound ==
    \A i \in Invs :
        /\ \A u \in {GEOCODING_URL, WEATHER_URL} :
              LET c == CallEntries(i, u) IN
              /\ Len(c) <= 3
              /\ \A k \in 1..Len(c) : c[k].attempt = k - 1
              /\ \A k \in 1..(Len(c) - 1) : c[k].outcome # "ok"
        /\ (Len(trace[i]) > 0 /\ LastAttempt(i).outcome = "ok")
              => data[i] = LastAttempt(i).body
        /\ (Len(trace[i]) > 0 /\ LastAttempt(i).outcome # "ok") =>
              LET c == CallEntries(i, LastAttempt(i).url) IN
              IF Len(c) = 3
              THEN Answered(i, 500) /\ exc[i] \in Errors
              ELSE exc[i] = "none" /\ ~Returned(i)
        /\ exc[i] \in Errors =>
              (Len(trace[i]) > 0 /\ LastAttempt(i).outcome # "ok")

\* C2 witness: the geocoding call succeeded on its third attempt and the
\* weather call failed three times
C2_Witness ==
    \E i \in Invs :
        /\ Len(trace[i]) = 6
        /\ trace[i][3].outcome = "ok"
        /\ exc[i] \in Errors

---------------------------------------------------------------------------
(* C3 *)

\* C3: a city that is missing, empty or only whitespace is answered with
\* 400, success=false and the message "Missing required parameter: city".
C3_MissingCity ==
    \A i \in Invs :
        (Entered(i) /\ CityIsText(i) /\ AllWhitespace(Submitted(i))) =>
            /\ Failed(i, 400, MsgMissing)
            /\ Contains(resp[i].body.error, TxtMissingPrefix)

\* C3 witness: a city of whitespace only was answered
C3_Witness ==
    \E i \in Invs :
        /\ Returned(i) /\ CityIsText(i)
        /\ Len(Submitted(i)) > 0 /\ AllWhitespace(Submitted(i))
        /\ resp[i].statusCode = 400

---------------------------------------------------------------------------
(* C4 *)

\* C4 as stated: every submitted city of more than 100 characters that is
\* not blank is answered with 400 "City name too long (max 100
\* characters)", and no submitted city of at most 100 characters is.
C4_SubmittedLength ==
    \A i \in Invs :
        (Entered(i) /\ CityIsText(i)) =>
            /\ (Len(Submitted(i)) > 100 /\ ~AllWhitespace(Submitted(i)))
                  => Failed(i, 400, MsgTooLong)
            /\ Len(Submitted(i)) <= 100 => ~Failed(i, 400, MsgTooLong)

\* C4 amended: the length that is checked is that of the city after its
\* leading and trailing whitespace is removed: more than 100 characters is
\* answered with 400 "City name too long (max 100 characters)", and a
\* trimmed city of 1 to 100 characters passes on to geocoding.
C4_TrimmedLength ==
    \A i \in Invs :
        (Entered(i) /\ CityIsText(i)) =>
            /\ IsTrimOf(city[i], Submitted(i))
            /\ Len(city[i]) > 100 =>
                  /\ Failed(i, 400, MsgTooLong)
                  /\ Contains(resp[i].body.error, TxtTooLong)
                  /\ trace[i] = <<>>
            /\ Len(city[i]) <= 100 => ~Failed(i, 400, MsgTooLong)
            /\ Len(city[i]) \in 1..100 =>
                  /\ url[i] # None
                  /\ ~Answered(i, 400)

\* C4 witness: a trimmed city of 101 characters was rejected
C4_Witness ==
    \E i \in Invs :
        /\ Returned(i) /\ CityIsText(i)
        /\ Len(city[i]) = 101
        /\ resp[i].statusCode = 400

---------------------------------------------------------------------------
(* C5 *)

\* the geocoding body has no results array or an empty one
NoResults(body) ==
    /\ body.t = "dict"
    /\ \/ "results" \notin DOMAIN body.v
       \/ body.v["results"].t = "list" /\ Len(body.v["results"].v) = 0

\* C5 as stated: when the geocoding body has no results array or an empty
\* one, get_coordinates returns None and the answer is 404, success=false,
\* with a message containing "City not found" and the city text as
\* submitted; a transport failure is never answered with 404.
C5_NotFoundEchoesSubmitted ==
    \A i \in Invs :
        /\ (LastOk(i, GEOCODING_URL) /\ NoResults(LastAttempt(i).body)) =>
              /\ location[i] = None
              /\ Answered(i, 404)
              /\ resp[i].body.success = FALSE
              /\ Contains(resp[i].body.error, TxtNotFound)
              /\ Contains(resp[i].body.error, Submitted(i))
        /\ exc[i] \in Errors => Answered(i, 500)

\* C5 amended: as C5, but the message is "City not found: " followed by
\* the city text with its leading and trailing whitespace removed.
C5_NotFoundEchoesTrimmed ==
    \A i \in Invs :
        /\ (LastOk(i, GEOCODING_URL) /\ NoResults(LastAttempt(i).body)) =>
              /\ location[i] = None
              /\ Failed(i, 404, MsgNotFoundPrefix \o city[i])
              /\ Contains(resp[i].body.error, TxtNotFound)
              /\ Contains(resp[i].body.error, city[i])
              /\ IsTrimOf(city[i], Submitted(i))
        /\ exc[i] \in Errors => Answered(i, 500)

\* C5 witness: a city submitted with outer whitespace was not found
C5_Witness ==
    \E i \in Invs :
        /\ Answered(i, 404)
        /\ NoResults(LastAttempt(i).body)
        /\ Submitted(i) # city[i]

---------------------------------------------------------------------------
(* C6 *)

\* the weather body has a "current" section
HasCurrent(body) ==
    /\ body.t = "dict"
    /\ "current" \in DOMAIN body.v
    /\ body.v["current"].t = "dict"

\* the weather body has no "current" section, or the section has no
\* temperature
NoTemperature(body) ==
    /\ body.t = "dict"
    /\ \/ "current" \notin DOMAIN body.v
       \/ /\ HasCurrent(body)
          /\ Get(body.v["current"], "temperature_2m", None) = None

\* the weather body has a temperature
HasTemperature(body) ==
    HasCurrent(body) /\ Get(body.v["current"], "temperature_2m", None) # None

\* C6: once the weather call has returned, the answer is 503 "Weather data
\* unavailable" exactly when the body has no temperature; 503 is given in
\* no other situation; a temperature of 0 is answered with 200; an absent
\* precipitation probability with a temperature present is answered 200.
C6_Unavailable ==
    \A i \in Invs :
        /\ LastOk(i, WEATHER_URL) =>
              /\ NoTemperature(LastAttempt(i).body)
                    <=> Failed(i, 503, MsgUnavailable)
              /\ NoTemperature(LastAttempt(i).body) <=> Answered(i, 503)
              /\ HasTemperature(LastAttempt(i).body) => Answered(i, 200)
        /\ Answered(i, 503) =>
              /\ LastOk(i, WEATHER_URL)
              /\ location[i] # None
              /\ weather[i].v["temperature"] = None

\* C6 witness: a temperature of 0 without a precipitation probability was
\* answered with 200
C6_Witness ==
    \E i \in Invs :
        /\ Answered(i, 200)
        /\ resp[i].body.data.temperature = Num(0)
        /\ resp[i].body.data.precipitationProbability = None

---------------------------------------------------------------------------
(* C7 *)

\* the geocoding result the invocation used: the first entry of the
\* results array of the successful geocoding attempt
FirstResult(i) ==
    LET c == CallEntries(i, GEOCODING_URL)
    IN  c[Len(c)].body.v["results"].v[1]

\* C7: with a geocoded location and a weather body that has a temperature,
\* the answer is 200, success=true, location "{name}, {country}", the
\* temperature and precipitation probability of the weather body
\* unchanged, and the recommendation list computed from those two values.
C7_Success ==
    \A i \in Invs :
        (LastOk(i, WEATHER_URL) /\ HasTemperature(LastAttempt(i).body)) =>
            LET current == LastAttempt(i).body.v["current"]
                t == Get(current, "temperature_2m", None)
                p == Get(current, "precipitation_probability", None)
                name == Get(FirstResult(i), "name", None)
                country == Get(FirstResult(i), "country", None)
                out == resp[i].body.data
            IN  /\ Answered(i, 200)
                /\ resp[i].body.success = TRUE
                /\ DOMAIN resp[i].body = {"success", "data"}
                /\ out.location = Format(name) \o <<",", " ">> \o Format(country)
                /\ FirstResult(i) = Toronto => out.location = TxtTorontoCanada
                /\ out.temperature = t
                /\ out.precipitationProbability = p
                /\ out.outerwearRecommended
                      = get_outerwear_recommendations(t, p)
                /\ (t = Num(-2) /\ p = Num(10))
                      => out.outerwearRecommended = <<"winter coat">>

\* C7 witness: Toronto at -2 degrees and 10 percent was answered with a
\* winter coat
C7_Witness ==
    \E i \in Invs :
        /\ Answered(i, 200)
        /\ resp[i].body.data.location = TxtTorontoCanada
        /\ resp[i].body.data.temperature = Num(-2)
        /\ resp[i].body.data.outerwearRecommended = <<"winter coat">>

---------------------------------------------------------------------------
(* C8, C9, C10: the recommendation engine called directly *)

TemperatureItemNames == {"winter coat", "light jacket", "hoodie"}

\* the temperature items of a recommendation list, in order
TemperaturePart(result) ==
    SelectSeq(result, LAMBDA x : x \in TemperatureItemNames)

Items(result) == {result[k] : k \in 1..Len(result)}

C9_RainJacket ==
    \A k \in 1..Len(recCalls) :
        LET p == recCalls[k].precipitation_probability
        IN  "rain jacket" \in Items(recCalls[k].result)
                <=> (p # None /\ p.v > 40)

\* C9 witness: 40 percent in a cold tier gives no rain jacket, 41 percent
\* in the warm tier gives one
C9_Witness ==
    /\ Len(recCalls) = 2
    /\ recCalls[1].temperature = Num(-1)
    /\ recCalls[1].precipitation_probability = Num(40)
    /\ "rain jacket" \notin Items(recCalls[1].result)
    /\ recCalls[2].temperature = Num(16)
    /\ recCalls[2].precipitation_probability = Num(41)
    /\ recCalls[2].result = <<"rain jacket">>

\* C10: every returned list is [temperature item?, rain item?]: at most 2
\* items, no item twice, "rain jacket" only in last place and after the
\* temperature item; 15 degrees at 60 percent gives hoodie then rain
\* jacket, 20 degrees at 10 percent gives the empty list.
C10_ListShape ==
    /\ \A k \in 1..Len(recCalls) :
          LET r == recCalls[k].result IN
          /\ Len(r) <= 2
          /\ Cardinality(Items(r)) = Len(r)
          /\ \A j \in 1..Len(r) : r[j] = "rain jacket" => j = Len(r)
          /\ \A j \in 1..Len(r) :
                r[j] \in TemperatureItemNames => j = 1
          /\ Items(r) \subseteq TemperatureItemNames \cup {"rain jacket"}
    /\ \A k \in 1..Len(recCalls) :
          LET c == recCalls[k] IN
          /\ (c.temperature = Num(15) /\ c.precipitation_probability = Num(60))
                => c.result = <<"hoodie", "rain jacket">>
          /\ (c.temperature = Num(20) /\ c.precipitation_probability = Num(10))
                => c.result = <<>>

\* C10 witness: 15 degrees at 60 percent returned both items, 20 degrees
\* at 10 percent none
C10_Witness ==
    /\ Len(recCalls) = 2
    /\ recCalls[1].temperature = Num(15)
    /\ recCalls[1].precipitation_probability = Num(60)
    /\ recCalls[1].result = <<"hoodie", "rain jacket">>
    /\ recCalls[2].temperature = Num(20)
    /\ recCalls[2].precipitation_probability = Num(10)
    /\ recCalls[2].result = <<>>

---------------------------------------------------------------------------
(* C11 *)

\* C11: whenever an exception is raised in the handler (retries exhausted
\* or any other), the invocation is answered with status 500 and the body
\* {success: false, error: "Internal server error"}, the same response
\* whatever the exception was.
C11_GenericFailure ==
    \A i \in Invs :
        exc[i] # "none" =>
            /\ Returned(i)
            /\ resp[i] = response(500, [success |-> FALSE, error |-> MsgInternal])

---------------------------------------------------------------------------
(* C12 *)

\* the stages of the try block, in the order of the code
StageOrder == <<"validate", "geocode", "weather", "availability", "recommend">>

\* the attempts of invocation i that open a fetch_with_retry call on URL u
CallsOn(i, u) ==
    {k \in 1..Len(trace[i]) : trace[i][k].url = u /\ trace[i][k].attempt = 0}

\* invocation i made an attempt on URL u
Fetched(i, u) == \E k \in 1..Len(trace[i]) : trace[i][k].url = u

\* C12: the stages run in the order validate, geocode, fetch weather,
\* availability check, recommend, and a failing stage ends the invocation:
\* no geocoding attempt for an invalid city, no weather attempt after a
\* not-found or a failed geocoding call, no recommendation for an absent
\* temperature; at most one geocoding call and one weather call, every
\* geocoding attempt before every weather attempt.
C12_StrictOrder ==
    \A i \in Invs :
        /\ \E n \in 0..Len(StageOrder) : steps[i] = SubSeq(StageOrder, 1, n)
        /\ (Entered(i) /\ CityIsText(i)
                /\ (AllWhitespace(Submitted(i)) \/ Len(city[i]) > 100)) =>
              /\ steps[i] = <<"validate">>
              /\ trace[i] = <<>>
              /\ Answered(i, 400)
        /\ Cardinality(CallsOn(i, GEOCODING_URL)) <= 1
        /\ Cardinality(CallsOn(i, WEATHER_URL)) <= 1
        /\ \A k, l \in 1..Len(trace[i]) :
              (k < l /\ trace[i][k].url = WEATHER_URL)
                  => trace[i][l].url = WEATHER_URL
        /\ Fetched(i, GEOCODING_URL) => Len(steps[i]) >= 2
        /\ Len(steps[i]) >= 3 =>
              /\ location[i] # None
              /\ \E k \in 1..Len(trace[i]) :
                    /\ trace[i][k].url = GEOCODING_URL
                    /\ trace[i][k].outcome = "ok"
                    /\ ~NoResults(trace[i][k].body)
        /\ Fetched(i, WEATHER_URL) => Len(steps[i]) >= 3
        /\ (Answered(i, 404)
               \/ (exc[i] \in Errors /\ LastAttempt(i).url = GEOCODING_URL)) =>
              /\ steps[i] = <<"validate", "geocode">>
              /\ ~Fetched(i, WEATHER_URL)
        /\ Len(steps[i]) >= 4 => LastOk(i, WEATHER_URL)
        /\ Answered(i, 503) =>
              /\ steps[i] = SubSeq(StageOrder, 1, 4)
              /\ NoTemperature(LastAttempt(i).body)
        /\ Len(steps[i]) = 5 =>
              /\ HasTemperature(LastAttempt(i).body)
              /\ Answered(i, 200)
        /\ Answered(i, 200) => steps[i] = StageOrder

\* C12 witness: an absent temperature ended the invocation before the
\* recommendation, after both calls needed all three attempts
C12_Witness ==
    \E i \in Invs :
        /\ Answered(i, 503)
        /\ steps[i] = SubSeq(StageOrder, 1, 4)
        /\ Len(trace[i]) = 6

---------------------------------------------------------------------------
(* C13 *)

RECURSIVE SleepsAfter(_)
\* the sleeps the claim prescribes for a sequence of attempts: 1 second
\* after a failed attempt 0, 2 seconds after a failed attempt 1, none after
\* the third attempt and none after a success
SleepsAfter(tr) ==
    IF tr = <<>> THEN <<>>
    ELSE LET e == Head(tr) IN
         (IF e.outcome = "ok" \/ e.attempt >= 2 THEN <<>>
          ELSE IF e.attempt = 0 THEN <<1>> ELSE <<2>>)
         \o SleepsAfter(Tail(tr))

RECURSIVE Total(_)
\* the sum of a sequence of numbers
Total(s) == IF s = <<>> THEN 0 ELSE Head(s) + Total(Tail(s))

\* C13: after a failed attempt with index a the call sleeps exactly 2^a
\* seconds if and only if an attempt remains (1s after attempt 0, 2s after
\* attempt 1, nothing after the third attempt or after a success), and the
\* sleeps of one fetch_with_retry call never add up to more than 3 seconds.
C13_Backoff ==
    \A i \in Invs :
        /\ sleeps[i] = SleepsAfter(trace[i])
        /\ sleeps[i] = SleepsAfter(CallEntries(i, GEOCODING_URL))
                           \o SleepsAfter(CallEntries(i, WEATHER_URL))
        /\ \A u \in {GEOCODING_URL, WEATHER_URL} :
              Total(SleepsAfter(CallEntries(i, u))) <= 3

\* C13 witness: the geocoding call succeeded on its third attempt and the
\* weather call failed three times, with no sleep after the last failure
C13_Witness ==
    \E i \in Invs :
        /\ exc[i] \in Errors
        /\ Len(trace[i]) = 6
        /\ sleeps[i] = <<1, 2, 1, 2>>

---------------------------------------------------------------------------
(* C14 *)

\* the latest log entry is the failure entry of invocation i for error e
FailureLogged(i, e) ==
    /\ Len(logs) > 0
    /\ logs[Len(logs)].level = "ERROR"
    /\ logs[Len(logs)].metadata.requestId = RequestId(i)
    /\ logs[Len(logs)].metadata.error = e

\* C14: when all three attempts of a fetch fail, the error that reaches the
\* handler is the error of the third attempt itself, unwrapped; the errors
\* of the first two attempts play no part, and get_coordinates / get_weather
\* pass it on unchanged.
C14_LastErrorPropagates ==
    \A i \in Invs :
        (Len(trace[i]) > 0 /\ LastAttempt(i).outcome # "ok"
            /\ LastAttempt(i).attempt = MAX_RETRIES - 1) =>
              /\ exc[i] = LastAttempt(i).outcome
              /\ FailureLogged(i, LastAttempt(i).outcome)
              /\ Answered(i, 500)

\* C14 witness: the weather call failed three times and the third error
\* differs from the first two
C14_Witness ==
    \E i \in Invs :
        /\ Len(trace[i]) >= 3
        /\ LastAttempt(i).url = WEATHER_URL
        /\ LastAttempt(i).attempt = 2
        /\ LastAttempt(i).outcome = "JSONDecodeError"
        /\ trace[i][Len(trace[i]) - 1].outcome = "URLError"
        /\ trace[i][Len(trace[i]) - 2].outcome = "URLError"
        /\ exc[i] = "JSONDecodeError"

---------------------------------------------------------------------------
(* C15 *)

\* C15: every response the handler returns has success true exactly when
\* its status code is 200, a data field exactly when success is true, an
\* error field exactly when success is false, and the two headers
\* Content-Type: application/json and Access-Control-Allow-Origin: *.
C15_Envelope ==
    \A i \in Invs :
        Returned(i) =>
            /\ resp[i].statusCode \in {200, 400, 404, 500, 503}
            /\ resp[i].body.success \in BOOLEAN
            /\ resp[i].body.success <=> resp[i].statusCode = 200
            /\ "data" \in DOMAIN resp[i].body <=> resp[i].body.success
            /\ "error" \in DOMAIN resp[i].body <=> ~resp[i].body.success
            /\ DOMAIN resp[i].headers =
                   {"Content-Type", "Access-Control-Allow-Origin"}
            /\ resp[i].headers["Content-Type"] = "application/json"
            /\ resp[i].headers["Access-Control-Allow-Origin"] = "*"

\* C15 witness: the run has produced a success envelope with data and no
\* error field
C15_Witness ==
    \E i \in Invs :
        /\ Returned(i)
        /\ resp[i].statusCode = 200
        /\ resp[i].body.success
        /\ DOMAIN resp[i].body = {"success", "data"}

---------------------------------------------------------------------------
(* C16 *)

\* the log entries of invocation i, in the order printed
LogsOf(i) ==
    SelectSeq(logs, LAMBDA l : "requestId" \in DOMAIN l.metadata
                               /\ l.metadata.requestId = RequestId(i))

\* C16: every invocation logs the request start before any validation or
\* upstream call, and logs completion or failure before it returns,
\* whatever the outcome (200, 400, 404, 503, 500); the weather-success
\* entry appears only after a reading with a present temperature; every
\* entry carries the request identifier.
C16_Logging ==
    /\ \A k \in 1..Len(logs) : "requestId" \in DOMAIN logs[k].metadata
    /\ \A i \in Invs :
          /\ Entered(i) =>
                /\ Len(LogsOf(i)) > 0
                /\ LogsOf(i)[1].message = "Request received"
          /\ Returned(i) =>
                /\ Len(LogsOf(i)) > 1
                /\ LogsOf(i)[Len(LogsOf(i))].message
                       \in {"Request completed", "Request failed"}
          /\ \A k \in 1..Len(LogsOf(i)) :
                LogsOf(i)[k].message = "Weather API success" =>
                    /\ LastOk(i, WEATHER_URL)
                    /\ HasTemperature(LastAttempt(i).body)

---------------------------------------------------------------------------
(* C17 *)

\* everything invocation i holds: its locals, its response, its history
Own(i) ==
    <<pc[i], city[i], url[i], attempt[i], data[i], location[i], weather[i],
      resp[i], exc[i], sleeps[i], steps[i]>>

\* a log entry without its request identifier
Anonymous(l) == [l EXCEPT !.metadata = [@ EXCEPT !.requestId = 0]]

\* the log entries of invocation i, without the request identifier
AnonymousLogsOf(i) ==
    [k \in 1..Len(LogsOf(i)) |-> Anonymous(LogsOf(i)[k])]

\* the position of attempt k of invocation i within its fetch_with_retry call
IndexInCall(i, k) ==
    Cardinality({m \in 1..k : trace[i][m].url = trace[i][k].url}) - 1

\* C17: concurrent invocations are independent: under any interleaving,
\* what an invocation holds and returns is determined by its own event and
\* the upstream answers to its own attempts, so two invocations with the
\* same event and the same answers agree whatever the others did; and the
\* attempt counter of an invocation counts its own attempts only.
C17_Independent ==
    /\ \A i, j \in Invs :
          (Entered(i) /\ Entered(j)
              /\ event[i] = event[j] /\ trace[i] = trace[j]) =>
                /\ Own(i) = Own(j)
                /\ AnonymousLogsOf(i) = AnonymousLogsOf(j)
    /\ \A i \in Invs :
          /\ \A k \in 1..Len(trace[i]) :
                trace[i][k].attempt = IndexInCall(i, k)
          /\ pc[i] \in {"geocode", "weather"} =>
                attempt[i] = Len(CallEntries(i, url[i].base))

\* C17 witness: two invocations of the same event ran interleaved, one
\* retried and was answered 200, the other exhausted its retries
C17_Witness ==
    \E i, j \in Invs :
        /\ i # j
        /\ event[i] = event[j]
        /\ Answered(i, 200)
        /\ Answered(j, 500)
        /\ sleeps[i] = <<1>>
        /\ sleeps[j] = <<1, 2>>
        /\ logs[1].metadata.requestId = RequestId(i)
        /\ logs[2].metadata.requestId = RequestId(j)
        /\ logs[Len(logs)].metadata.requestId = RequestId(i)

---------------------------------------------------------------------------
(* C18 *)

\* invocation i still has a step to take
Running(i) == pc[i] \in {"start", "geocode", "weather"}

\* C18: every invocation ends by returning a response, after at most 6
\* HTTP attempts (at most 3 for geocoding, then at most 3 for weather) and
\* at most 4 backoff sleeps: an invocation that was started and has no step
\* left has returned, and the counts stay within their limits.
C18_Terminates ==
    \A i \in Invs :
        /\ Len(trace[i]) <= 6
        /\ Len(CallEntries(i, GEOCODING_URL)) <= 3
        /\ Len(CallEntries(i, WEATHER_URL)) <= 3
        /\ Len(sleeps[i]) <= 4
        /\ (Entered(i) /\ ~Running(i)) => (Returned(i) /\ resp[i] # None)

---------------------------------------------------------------------------
(* C19 *)

====
